---- MODULE Spec2Model ----
(***************************************************************************)
(* Model of the animation playback engine of AI-companion-2d:              *)
(* CharacterManager (src/app/components/Character.tsx) together with the   *)
(* React effect of Character / useCharacter that owns one manager.         *)
(*                                                                         *)
(* A manager is a record of the class's private fields.  Interval timers   *)
(* live in the host: `timers` is the set of handles that were started by   *)
(* setInterval and not yet cancelled by clearInterval, `timerOwner` is the *)
(* manager the callback closure of a handle is bound to.                   *)
(*                                                                         *)
(* The module also models FrameExtractor (src/app/pre-processing/split.ts) *)
(* and the flood-fill matte of removeBackgroud                             *)
(* (src/app/pre-processing/removeBackgroud.ts); each component has its own *)
(* variables and its own specification, the others stay at rest.           *)
(***************************************************************************)
EXTENDS Integers, Sequences, FiniteSets, TLC

\* ---------------------------------------------------------------- bounds
MaxManagers == 3    \* managers constructed in one behaviour
MaxTimers == 5      \* setInterval calls in one behaviour
MaxCount == 4       \* saturation of the per-run callback counters
BaseLen == 2        \* length of a non-empty baseFrames prop
TalkLen == 3        \* length of a non-empty talkingFrames prop
MaxCalls == 2       \* extractFrames calls in one behaviour
MaxGrid == 2        \* largest cols / rows argument of extractFrames
MaxSide == 3        \* largest width / height of a sheet that is cut alone
MaxPixels == 12     \* largest width * height of an image that is matted
EstSide == 2        \* largest width / height of an arbitrary estimator image
FrameSide == 4      \* largest side of an estimator image with a uniform border

ManagerIds == 1..MaxManagers
TimerIds == 1..MaxTimers

\* ------------------------------------------------------------ data model
AnimationType == {"idle", "talking", "walking", "dancing"}
CharacterState == {"playing", "paused", "stopped"}

NoAnim == "none"     \* currentAnimation = null
NoTimer == 0         \* animationTimer = null
NoManager == 0       \* managerRef.current = null

\* An AnimationConfig: the number of frames, the loop flag and whether an
\* onComplete callback is present.  present = FALSE stands for a name that
\* is not a key of the animations record (the lookup yields undefined).
AnimationConfig(n, l, c) ==
    [present |-> TRUE, frames |-> n, loop |-> l, onComplete |-> c]

Absent == [present |-> FALSE, frames |-> 0, loop |-> FALSE, onComplete |-> FALSE]

\* The animations record a direct caller of the exported class constructs:
\* a looping clip, a 3-frame one-shot clip with onComplete, a 2-frame
\* one-shot clip without onComplete, and one name that is missing.
DirectAnimations ==
    [idle    |-> AnimationConfig(2, TRUE, FALSE),
     talking |-> AnimationConfig(3, FALSE, TRUE),
     walking |-> AnimationConfig(2, FALSE, FALSE),
     dancing |-> Absent]

\* The animations record built by the effect of Character / useCharacter
\* from the frame props; walkingFrames and dancingFrames fall back to
\* baseFrames when empty, as talkingFrames does.
EffectAnimations(base, talking, walking, dancing) ==
    [idle    |-> AnimationConfig(base, TRUE, FALSE),
     talking |-> AnimationConfig(IF talking > 0 THEN talking ELSE base, TRUE, FALSE),
     walking |-> AnimationConfig(IF walking > 0 THEN walking ELSE base, TRUE, FALSE),
     dancing |-> AnimationConfig(IF dancing > 0 THEN dancing ELSE base, TRUE, FALSE)]

\* Field initialisers of the class and its constructor.
NewCharacterManager(animations) ==
    [animations        |-> animations,
     currentAnimation  |-> NoAnim,
     animationTimer    |-> NoTimer,
     currentFrameIndex |-> 0,
     state             |-> "stopped",
     onFrameChange     |-> FALSE]

\* A slot of `managers` that no constructor call has filled yet.
Unallocated == NewCharacterManager([t \in AnimationType |-> Absent])

VARIABLES
    managers,     \* ManagerIds -> the fields of each constructed manager
    numManagers,  \* how many managers have been constructed
    direct,       \* managers constructed and held by a direct caller
    managerRef,   \* managerRef.current of the mounted component / hook
    mounted,      \* the component / hook is mounted
    timers,       \* live interval handles (started, not yet cancelled)
    timerOwner,   \* handle -> manager whose callback the handle runs
    nextTimer,    \* the next handle setInterval returns
    last,         \* the last operation, its arguments and the state before it
    calls,        \* callbacks invoked by the last step, in order
    threw,        \* the last step ended in an uncaught exception
    run,          \* per manager: what happened since its last playAnimation
    disposed      \* managers whose owning effect has been cleaned up

VARIABLES
    cache,        \* FrameExtractor.cache: key -> the stored frames array
    imageCache,   \* FrameExtractor.imageCache: the urls with a decoded image
    arrays,       \* the frames arrays on the heap: reference -> contents
    xcalls,       \* the extractFrames calls made so far, in call order
    cleared       \* keys whose entry clearCache evicted, not stored again since

animVars == <<managers, numManagers, direct, managerRef, mounted, timers,
              timerOwner, nextTimer, last, calls, threw, run, disposed>>

VARIABLES
    cut           \* one sheet cut into frames on its own: arguments and result

VARIABLES
    matte         \* one image run through removeBackgroud: input and outputs

VARIABLES
    estimate      \* one image given to sampleBackgroundColor: input and result

VARIABLES
    talk          \* the TalkingAnimation of the page and the page's state for it

extractorVars == <<cache, imageCache, arrays, xcalls, cleared>>

vars == <<animVars, extractorVars, cut, matte, estimate, talk>>

\* ------------------------------------------------- the host's timer table
\* What a method call or a timer callback can touch: the managers and the
\* host's timer table.  Methods are functions from worlds to worlds, so
\* that a handler that calls several of them is one step.
World ==
    [managers |-> managers, timers |-> timers, owner |-> timerOwner,
     nextTimer |-> nextTimer]

\* this.animationTimer = setInterval(callback bound to manager m, ...)
setInterval(w, m) ==
    [w EXCEPT !.timers = @ \cup {w.nextTimer},
              !.owner = [t \in DOMAIN @ |-> IF t = w.nextTimer THEN m ELSE @[t]],
              !.nextTimer = @ + 1,
              !.managers[m].animationTimer = w.nextTimer]

clearInterval(w, t) ==
    [w EXCEPT !.timers = @ \ {t}]

\* ----------------------------------------------------- CharacterManager
\* Variant: the interval is not cancelled, only the fields are reset.
stopAnimation_NoCancel(w, m) ==
    [w EXCEPT !.managers[m].animationTimer = NoTimer,
              !.managers[m].currentAnimation = NoAnim,
              !.managers[m].currentFrameIndex = 0,
              !.managers[m].state = "stopped",
              !.managers[m].onFrameChange = FALSE]

stopAnimation(w, m) ==
    LET w1 == IF w.managers[m].animationTimer # NoTimer
              THEN [clearInterval(w, w.managers[m].animationTimer)
                        EXCEPT !.managers[m].animationTimer = NoTimer]
              ELSE w
    IN [w1 EXCEPT !.managers[m].currentAnimation = NoAnim,
                  !.managers[m].currentFrameIndex = 0,
                  !.managers[m].state = "stopped",
                  !.managers[m].onFrameChange = FALSE]

startAnimationLoop(w, m) ==
    IF w.managers[m].currentAnimation = NoAnim THEN w ELSE setInterval(w, m)

\* Variant: the previous animation is not stopped before the new one starts.
playAnimation_NoTeardown(w, m, type, listener) ==
    LET animation == w.managers[m].animations[type]
    IN IF ~animation.present
       THEN w
       ELSE startAnimationLoop(
                [w EXCEPT !.managers[m].currentAnimation = type,
                          !.managers[m].currentFrameIndex = 0,
                          !.managers[m].state = "playing",
                          !.managers[m].onFrameChange = listener], m)

\* Variant: the result of the lookup is not checked.
playAnimation_NoLookupCheck(w, m, type, listener) ==
    LET w1 == IF w.managers[m].currentAnimation # NoAnim
              THEN stopAnimation(w, m) ELSE w
    IN startAnimationLoop(
           [w1 EXCEPT !.managers[m].currentAnimation = type,
                      !.managers[m].currentFrameIndex = 0,
                      !.managers[m].state = "playing",
                      !.managers[m].onFrameChange = listener], m)

\* Variant: playing the clip that is already playing returns at once.
playAnimation_EarlyReturn(w, m, type, listener) ==
    IF w.managers[m].state = "playing" /\ w.managers[m].currentAnimation = type
    THEN w
    ELSE LET w1 == IF w.managers[m].currentAnimation # NoAnim
                   THEN stopAnimation(w, m) ELSE w
             animation == w1.managers[m].animations[type]
         IN IF ~animation.present
            THEN w1
            ELSE startAnimationLoop(
                     [w1 EXCEPT !.managers[m].currentAnimation = type,
                                !.managers[m].currentFrameIndex = 0,
                                !.managers[m].state = "playing",
                                !.managers[m].onFrameChange = listener], m)

playAnimation(w, m, type, listener) ==
    LET w1 == IF w.managers[m].currentAnimation # NoAnim
              THEN stopAnimation(w, m) ELSE w
        animation == w1.managers[m].animations[type]
    IN IF ~animation.present
       THEN w1
       ELSE startAnimationLoop(
                [w1 EXCEPT !.managers[m].currentAnimation = type,
                           !.managers[m].currentFrameIndex = 0,
                           !.managers[m].state = "playing",
                           !.managers[m].onFrameChange = listener], m)

\* Variant: the state becomes paused but the interval keeps running.
pauseAnimation_NoCancel(w, m) ==
    IF w.managers[m].state = "playing" /\ w.managers[m].animationTimer # NoTimer
    THEN [w EXCEPT !.managers[m].state = "paused"]
    ELSE w

\* Variant: pausing also rewinds the clip.
pauseAnimation_Rewinds(w, m) ==
    IF w.managers[m].state = "playing" /\ w.managers[m].animationTimer # NoTimer
    THEN [clearInterval(w, w.managers[m].animationTimer)
              EXCEPT !.managers[m].state = "paused",
                     !.managers[m].currentFrameIndex = 0]
    ELSE w

pauseAnimation(w, m) ==
    IF w.managers[m].state = "playing" /\ w.managers[m].animationTimer # NoTimer
    THEN [clearInterval(w, w.managers[m].animationTimer)
              EXCEPT !.managers[m].state = "paused"]
    ELSE w

\* Variant: resuming restarts the clip from frame 0.
resumeAnimation_Restarts(w, m) ==
    IF w.managers[m].state = "paused" /\ w.managers[m].currentAnimation # NoAnim
    THEN startAnimationLoop([w EXCEPT !.managers[m].state = "playing",
                                      !.managers[m].currentFrameIndex = 0], m)
    ELSE w

resumeAnimation(w, m) ==
    IF w.managers[m].state = "paused" /\ w.managers[m].currentAnimation # NoAnim
    THEN startAnimationLoop([w EXCEPT !.managers[m].state = "playing"], m)
    ELSE w

\* The outcome of one run of the interval callback: the world it leaves,
\* the callbacks it invoked and whether it ended in an uncaught exception.
Outcome(w, cs, t) == [world |-> w, calls |-> cs, threw |-> t]

FrameChangeCall(m, i) == [cb |-> "onFrameChange", manager |-> m, arg |-> i]
CompleteCall(m) == [cb |-> "onComplete", manager |-> m, arg |-> 0]

\* if (this.onFrameChange) this.onFrameChange(this.currentFrameIndex)
NotifyFrameChange(w, m) ==
    Outcome(w,
            IF w.managers[m].onFrameChange
            THEN <<FrameChangeCall(m, w.managers[m].currentFrameIndex)>>
            ELSE <<>>,
            FALSE)

\* The non-looping end of a clip: this.stopAnimation() and then the read
\* of this.currentAnimation.onComplete.  The read is made on the field as
\* stopAnimation left it; reading a property of null is a TypeError that
\* leaves the callback.
EndOfClip(w, m) ==
    LET w1 == stopAnimation(w, m)
        cur == w1.managers[m].currentAnimation
    IN IF cur = NoAnim
       THEN Outcome(w1, <<>>, TRUE)
       ELSE Outcome(w1,
                    IF w1.managers[m].animations[cur].onComplete
                    THEN <<CompleteCall(m)>> ELSE <<>>,
                    FALSE)

\* A callback that wraps one tick late: `>` where the source has `>=`.
IntervalCallback_LateWrap(w, m) ==
    IF w.managers[m].currentAnimation = NoAnim
    THEN Outcome(w, <<>>, FALSE)
    ELSE LET w1 == [w EXCEPT !.managers[m].currentFrameIndex = @ + 1]
             cfg == w1.managers[m].animations[w1.managers[m].currentAnimation]
         IN IF w1.managers[m].currentFrameIndex > cfg.frames
            THEN IF cfg.loop
                 THEN NotifyFrameChange(
                          [w1 EXCEPT !.managers[m].currentFrameIndex = 0], m)
                 ELSE EndOfClip(w1, m)
            ELSE NotifyFrameChange(w1, m)

\* The callback startAnimationLoop hands to setInterval.
IntervalCallback(w, m) ==
    IF w.managers[m].currentAnimation = NoAnim
    THEN Outcome(w, <<>>, FALSE)
    ELSE LET w1 == [w EXCEPT !.managers[m].currentFrameIndex = @ + 1]
             cfg == w1.managers[m].animations[w1.managers[m].currentAnimation]
         IN IF w1.managers[m].currentFrameIndex >= cfg.frames
            THEN IF cfg.loop
                 THEN NotifyFrameChange(
                          [w1 EXCEPT !.managers[m].currentFrameIndex = 0], m)
                 ELSE EndOfClip(w1, m)
            ELSE NotifyFrameChange(w1, m)

\* ------------------------------------------------------------- history
\* What has happened to a manager since its last successful playAnimation:
\* the clip played, whether it was played from Stopped with a listener and
\* only timer ticks followed, how many callbacks were delivered (counted up
\* to MaxCount) and whether a tick ran the clip to its non-looping end.
NoRun ==
    [type |-> NoAnim, pure |-> FALSE, changes |-> 0, completes |-> 0,
     ended |-> FALSE]

Bump(n, k) == IF n + k > MaxCount THEN MaxCount ELSE n + k

CountOf(cs, cb) == Cardinality({i \in DOMAIN cs : cs[i].cb = cb})

LiveTimers(m) == {t \in timers : timerOwner[t] = m}

LiveTimersIn(w, m) == {t \in w.timers : w.owner[t] = m}

\* resumedAt: for a tick that directly follows a resume of the same paused
\* manager, the frame index the manager was paused at; otherwise -1.
Record(op, m, arg, listener) ==
    [op |-> op, manager |-> m, arg |-> arg, listener |-> listener,
     before |-> IF m \in ManagerIds THEN managers[m] ELSE Unallocated,
     liveBefore |-> IF m \in ManagerIds THEN LiveTimers(m) ELSE {},
     resumedAt |-> IF /\ op = "tick"
                      /\ last.op = "resume"
                      /\ last.manager = m
                      /\ last.before.state = "paused"
                   THEN last.before.currentFrameIndex
                   ELSE -1]

\* A step ends in world w having invoked the callbacks cs.
Commit(w, cs, t) ==
    /\ w.nextTimer <= MaxTimers + 1
    /\ managers' = w.managers
    /\ timers' = w.timers
    /\ timerOwner' = w.owner
    /\ nextTimer' = w.nextTimer
    /\ calls' = cs
    /\ threw' = t
    /\ UNCHANGED <<extractorVars, cut, matte, estimate, talk>>

\* -------------------------------------------------------- FrameExtractor
\* The decoded images of the model.  Every pixel of an image carries its
\* own tag <<image, x, y>>, as on a test sheet whose cells are all
\* different, so that the content of a frame tells where it was cut from.
Image(id, w, h) == [id |-> id, width |-> w, height |-> h]

I1 == Image("I1", 3, 3)
I2 == Image("I2", 2, 2)
I3 == Image("I3", 3, 2)

\* The spritesheet argument: a string (a url, which the host resolves to an
\* image or fails to load) or an HTMLImageElement that is already decoded.
Urls == {"u1"}
ImageAt(url) == I1
Spritesheets ==
    {[kind |-> "string", url |-> u, image |-> ImageAt(u)] : u \in Urls}
    \cup {[kind |-> "element", url |-> "", image |-> i] : i \in {I2, I3}}

\* The grids the callers of the extractor ask for: one frame, a strip, and
\* the two kinds of grid without cells.
Grids == {<<1, 1>>, <<MaxGrid, 1>>, <<0, 1>>, <<1, 0>>}

NoKey == ""          \* cacheKey undefined (the empty string is falsy too)
CacheKeys == {NoKey, "k"}
Keys == {"k", "inline-image"} \cup Urls
NoRef == 0           \* no frames array: Map.get gives undefined / null
CallIds == 1..MaxCalls

Transparent == <<"transparent", 0, 0>>

\* ctx.drawImage(image, sx, sy, sw, sh, 0, 0, sw, sh) on a cleared canvas of
\* sw by sh pixels, then canvas.toDataURL: the payload is the content of
\* the canvas, pixel by pixel.
Crop(img, sx, sy, sw, sh) ==
    [width |-> sw, height |-> sh,
     px |-> [p \in (0..(sw - 1)) \X (0..(sh - 1)) |->
               IF sx + p[1] < img.width /\ sy + p[2] < img.height
               THEN <<img.id, sx + p[1], sy + p[2]>>
               ELSE Transparent]]

\* A division that rounds up instead of down.
FloorDiv_Ceil(size, n) == IF n = 0 THEN size + 1 ELSE (size + n - 1) \div n

\* Math.floor(size / n); the quotient by 0 is Infinity in the source and is
\* never used, because no loop body runs when cols or rows is 0.
FloorDiv(size, n) == IF n = 0 THEN size + 1 ELSE size \div n

RECURSIVE ColLoop(_, _, _, _, _, _, _)
ColLoop(img, fw, fh, cols, row, col, frames) ==
    IF col < cols
    THEN ColLoop(img, fw, fh, cols, row, col + 1,
                 Append(frames, Crop(img, col * fw, row * fh, fw, fh)))
    ELSE frames

RECURSIVE RowLoop(_, _, _, _, _, _, _)
RowLoop(img, fw, fh, cols, rows, row, frames) ==
    IF row < rows
    THEN RowLoop(img, fw, fh, cols, rows, row + 1,
                 ColLoop(img, fw, fh, cols, row, 0, frames))
    ELSE frames

\* The frames array extractFrames builds from a decoded image.
CutFrames(img, cols, rows) ==
    RowLoop(img, FloorDiv(img.width, cols), FloorDiv(img.height, rows),
            cols, rows, 0, <<>>)

\* The extractor's maps, its call records and the heap of frames arrays.
Extractor ==
    [cache |-> cache, imageCache |-> imageCache, arrays |-> arrays,
     calls |-> xcalls]

\* const key = cacheKey || (typeof spritesheet === "string" ? spritesheet
\*                                                        : "inline-image")
KeyOf(spritesheet, cacheKey) ==
    IF cacheKey # NoKey THEN cacheKey
    ELSE IF spritesheet.kind = "string" THEN spritesheet.url
    ELSE "inline-image"

\* The part of extractFrames after the image is at hand: cut the frames
\* into a new array, store the array under the key, return it.
FinishExtract(x, c) ==
    LET call == x.calls[c]
        frames == CutFrames(call.spritesheet.image, call.cols, call.rows)
    IN [x EXCEPT !.arrays[c] = frames,
                 !.cache[call.key] = c,
                 !.calls[c].status = "done",
                 !.calls[c].result = c]

\* An extractFrames that never consults the cache.
StartExtract_NoLookup(x, spritesheet, cols, rows, cacheKey) ==
    LET c == Len(x.calls) + 1
        key == KeyOf(spritesheet, cacheKey)
        call == [spritesheet |-> spritesheet, cols |-> cols, rows |-> rows,
                 cacheKey |-> cacheKey, key |-> key,
                 found |-> x.cache[key],
                 afterClear |-> key \in cleared,
                 status |-> "awaiting", result |-> NoRef,
                 loadCalled |-> FALSE, imageCached |-> FALSE]
        x1 == [x EXCEPT !.calls = Append(@, call)]
    IN IF spritesheet.kind = "string"
       THEN [x1 EXCEPT !.calls[c].loadCalled = TRUE,
                       !.calls[c].imageCached = (spritesheet.url \in x.imageCache)]
       ELSE FinishExtract(x1, c)

\* An extractFrames that stores its still empty array under the key before
\* it waits for the image.
StartExtract_PublishesEarly(x, spritesheet, cols, rows, cacheKey) ==
    LET c == Len(x.calls) + 1
        key == KeyOf(spritesheet, cacheKey)
        call == [spritesheet |-> spritesheet, cols |-> cols, rows |-> rows,
                 cacheKey |-> cacheKey, key |-> key,
                 found |-> x.cache[key],
                 afterClear |-> key \in cleared,
                 status |-> "awaiting", result |-> NoRef,
                 loadCalled |-> FALSE, imageCached |-> FALSE]
        x1 == [x EXCEPT !.calls = Append(@, call)]
    IN IF x.cache[key] # NoRef
       THEN [x1 EXCEPT !.calls[c].status = "done",
                       !.calls[c].result = x.cache[key]]
       ELSE IF spritesheet.kind = "string"
       THEN [x1 EXCEPT !.calls[c].loadCalled = TRUE,
                       !.calls[c].imageCached = (spritesheet.url \in x.imageCache),
                       !.cache[key] = c]
       ELSE FinishExtract(x1, c)

\* extractFrames up to its first suspension.  The call gets the next call
\* id c; the array it may allocate is identified by c as well.
StartExtract(x, spritesheet, cols, rows, cacheKey) ==
    LET c == Len(x.calls) + 1
        key == KeyOf(spritesheet, cacheKey)
        call == [spritesheet |-> spritesheet, cols |-> cols, rows |-> rows,
                 cacheKey |-> cacheKey, key |-> key,
                 found |-> x.cache[key],
                 afterClear |-> key \in cleared,
                 status |-> "awaiting", result |-> NoRef,
                 loadCalled |-> FALSE, imageCached |-> FALSE]
        x1 == [x EXCEPT !.calls = Append(@, call)]
    IN IF x.cache[key] # NoRef
       THEN [x1 EXCEPT !.calls[c].status = "done",
                       !.calls[c].result = x.cache[key]]
       ELSE IF spritesheet.kind = "string"
       THEN [x1 EXCEPT !.calls[c].loadCalled = TRUE,
                       !.calls[c].imageCached = (spritesheet.url \in x.imageCache)]
       ELSE FinishExtract(x1, c)

\* loadImage resolves: img.onload stores the element in imageCache, then
\* the suspended extractFrames continues.
ResolveLoad(x, c) ==
    FinishExtract([x EXCEPT !.imageCache = @ \cup {x.calls[c].spritesheet.url}], c)

\* A failure path that leaves an empty entry behind.
RejectLoad_StoresEmpty(x, c) ==
    [x EXCEPT !.calls[c].status = "rejected", !.cache[x.calls[c].key] = c]

\* loadImage rejects (img.onerror): the await throws and extractFrames
\* rejects with that error.
RejectLoad(x, c) ==
    [x EXCEPT !.calls[c].status = "rejected"]

getFrame(x, spritesheet, frameIndex) ==
    LET ref == x.cache[spritesheet]
    IN IF ref # NoRef /\ frameIndex + 1 \in DOMAIN x.arrays[ref]
       THEN [found |-> TRUE, frame |-> x.arrays[ref][frameIndex + 1]]
       ELSE [found |-> FALSE, frame |-> Crop(I1, 0, 0, 0, 0)]

getAllFrames(x, spritesheet) == x.cache[spritesheet]

\* A clearCache(key) that leaves the entry of the key in place.
clearCache_Keeps(x, spritesheet) ==
    IF spritesheet # NoKey
    THEN x
    ELSE [x EXCEPT !.cache = [k \in Keys |-> NoRef]]

clearCache(x, spritesheet) ==
    IF spritesheet # NoKey
    THEN [x EXCEPT !.cache[spritesheet] = NoRef]
    ELSE [x EXCEPT !.cache = [k \in Keys |-> NoRef]]

ExtractorAtRest ==
    /\ cache = [k \in Keys |-> NoRef]
    /\ imageCache = {}
    /\ arrays = [c \in CallIds |-> <<>>]
    /\ xcalls = <<>>
    /\ cleared = {}

\* No sheet is being cut on its own.
CutAtRest ==
    cut = [image |-> I1, cols |-> 0, rows |-> 0, done |-> FALSE, frames |-> <<>>]

\* --------------------------------------------------------- removeBackgroud
\* An ImageData: width, height and one RGBA tuple per pixel, pixel index
\* y * width + x (the source's byte offset is four times the pixel index).
White == <<255, 255, 255, 255>>
NearWhite == <<245, 245, 245, 255>>
Black == <<0, 0, 0, 255>>
Blank == <<0, 0, 0, 0>>

ImageData(w, h, data) == [width |-> w, height |-> h, data |-> data]

\* A clamp that lets every value through.
clamp_Identity(value, min, max) == value

clamp(value, min, max) ==
    IF value < min THEN min ELSE IF value > max THEN max ELSE value

maxDistanceSq == 4 * 255 * 255

\* distanceSquared <= maxDistanceSq * (t / 100) * (t / 100), t the clamped
\* tolerancePercent, compared after multiplying both sides by 100
\* (maxDistanceSq is a multiple of 100; all products stay below 2^31).
withinTolerance(data, index, backgroundColor, t) ==
    LET dr == data[index][1] - backgroundColor[1]
        dg == data[index][2] - backgroundColor[2]
        db == data[index][3] - backgroundColor[3]
        da == data[index][4] - backgroundColor[4]
        distanceSquared == dr * dr + dg * dg + db * db + da * da
    IN distanceSquared * 100 <= (maxDistanceSq \div 100) * t * t

\* ------------------------------------------------- sampleBackgroundColor
\* The call without the optional override.
NoOverride == <<>>

Min(a, b) == IF a < b THEN a ELSE b
Max(a, b) == IF a > b THEN a ELSE b

quantize(value, step) == value \div step

\* The key of a pixel's bucket: the template string joins the four
\* quantized channels with "-", which is one-to-one on tuples of naturals.
BucketKey(px) ==
    <<quantize(px[1], 16), quantize(px[2], 16), quantize(px[3], 16),
      quantize(px[4], 32)>>

\* `buckets` is the Map in insertion order: a sequence of buckets, each
\* with its key.  `index` is the pixel index (the byte index over four).
registerPixel(buckets, data, index) ==
    IF index \notin DOMAIN data THEN buckets
    ELSE LET px == data[index]
             key == BucketKey(px)
             found == {i \in DOMAIN buckets : buckets[i].key = key}
         IN IF found # {}
            THEN LET i == CHOOSE i \in found : TRUE
                 IN [buckets EXCEPT ![i] =
                        [key |-> key, count |-> @.count + 1,
                         sumR |-> @.sumR + px[1], sumG |-> @.sumG + px[2],
                         sumB |-> @.sumB + px[3], sumA |-> @.sumA + px[4]]]
            ELSE Append(buckets,
                        [key |-> key, count |-> 1, sumR |-> px[1],
                         sumG |-> px[2], sumB |-> px[3], sumA |-> px[4]])

registerCoordinate(buckets, imageData, x, y) ==
    IF x < 0 \/ y < 0 \/ x >= imageData.width \/ y >= imageData.height
    THEN buckets
    ELSE registerPixel(buckets, imageData.data, y * imageData.width + x)

RECURSIVE ScanColumns(_, _), ScanRows(_, _)
RECURSIVE dominantBucket(_, _, _)

\* The body of the loop over x: four registerCoordinate calls.
RegisterColumn(buckets, imageData, x) ==
    LET height == imageData.height
        top == registerCoordinate(buckets, imageData, x, 0)
        second == registerCoordinate(top, imageData, x, Min(1, height - 1))
        bottom == registerCoordinate(second, imageData, x, height - 1)
    IN registerCoordinate(bottom, imageData, x, Max(height - 2, 0))

\* The body of the loop over y: four registerCoordinate calls.
RegisterRow(buckets, imageData, y) ==
    LET width == imageData.width
        left == registerCoordinate(buckets, imageData, 0, y)
        second == registerCoordinate(left, imageData, Min(1, width - 1), y)
        right == registerCoordinate(second, imageData, width - 1, y)
    IN registerCoordinate(right, imageData, Max(width - 2, 0), y)

\* The buckets after the iterations 0..x-1 of the loop over x.  (The test
\* on Len has the earlier iterations evaluated before this one starts.)
ScanColumns(imageData, x) ==
    IF x = 0 THEN <<>>
    ELSE LET buckets == ScanColumns(imageData, x - 1)
         IN IF Len(buckets) >= 0
            THEN RegisterColumn(buckets, imageData, x - 1)
            ELSE buckets

\* The buckets after the loop over x and the iterations 0..y-1 of the loop
\* over y.
ScanRows(imageData, y) ==
    IF y = 0 THEN ScanColumns(imageData, imageData.width)
    ELSE LET buckets == ScanRows(imageData, y - 1)
         IN IF Len(buckets) >= 0
            THEN RegisterRow(buckets, imageData, y - 1)
            ELSE buckets

\* `let dominantBucket = null`.
NoBucket ==
    [key |-> <<>>, count |-> 0, sumR |-> 0, sumG |-> 0, sumB |-> 0, sumA |-> 0]

\* A selection that also replaces the dominant bucket on an equal count.
Replaces_OnTie(bucket, dominant) == bucket.count >= dominant.count

Replaces(bucket, dominant) == bucket.count > dominant.count

\* The loop over buckets.values(), from the i-th bucket on.
dominantBucket(buckets, i, dominant) ==
    IF i > Len(buckets) THEN dominant
    ELSE dominantBucket(buckets, i + 1,
                        IF dominant = NoBucket \/ Replaces(buckets[i], dominant)
                        THEN buckets[i] ELSE dominant)

\* Math.round(sum / count) for naturals: the floor of sum / count + 1/2.
Round(sum, count) == (2 * sum + count) \div (2 * count)

sampleBackgroundColor(imageData, override) ==
    IF override # NoOverride THEN override
    ELSE IF imageData.width = 0 \/ imageData.height = 0 THEN White
    ELSE LET buckets == ScanRows(imageData, imageData.height)
             dominant == dominantBucket(buckets, 1, NoBucket)
         IN IF Len(buckets) = 0 \/ dominant = NoBucket THEN White
            ELSE <<Round(dominant.sumR, dominant.count),
                   Round(dominant.sumG, dominant.count),
                   Round(dominant.sumB, dominant.count),
                   Round(dominant.sumA, dominant.count)>>

\* The neighbourhood of a fill that only looks along rows and columns.
neighborOffsets_FourWay ==
    << <<1, 0>>, <<-1, 0>>, <<0, 1>>, <<0, -1>> >>

neighborOffsets ==
    << <<1, 0>>, <<-1, 0>>, <<0, 1>>, <<0, -1>>,
       <<1, 1>>, <<1, -1>>, <<-1, 1>>, <<-1, -1>> >>

RECURSIVE SeedRows(_, _), SeedColumns(_, _), PushNeighbors(_, _, _, _, _), Drain(_)
RECURSIVE Drain_MarksAtPop(_), DrainFifo(_)

\* A pushPixel over a worklist with room for two entries: a pixel that
\* finds the worklist full is marked but not queued.
pushPixel_Bounded(f, x, y) ==
    IF x < 0 \/ y < 0 \/ x >= f.width \/ y >= f.height
    THEN f
    ELSE LET pixelIndex == y * f.width + x
         IN IF pixelIndex \in f.visited
            THEN f
            ELSE IF withinTolerance(f.data, pixelIndex, f.background, f.t)
            THEN IF Len(f.queue) < 2
                 THEN [f EXCEPT !.queue = Append(@, pixelIndex),
                                !.pushed = Append(@, pixelIndex),
                                !.visited = @ \cup {pixelIndex}]
                 ELSE [f EXCEPT !.visited = @ \cup {pixelIndex}]
            ELSE f

\* The state of one flood fill f: the pixel buffer, the visited bitmap, the
\* worklist, every queue.push so far in order, the number of pops so far,
\* and the fixed width, height, background and tolerance.
pushPixel(f, x, y) ==
    IF x < 0 \/ y < 0 \/ x >= f.width \/ y >= f.height
    THEN f
    ELSE LET pixelIndex == y * f.width + x
         IN IF pixelIndex \in f.visited
            THEN f
            ELSE IF withinTolerance(f.data, pixelIndex, f.background, f.t)
            THEN [f EXCEPT !.queue = Append(@, pixelIndex),
                           !.pushed = Append(@, pixelIndex),
                           !.visited = @ \cup {pixelIndex}]
            ELSE f

\* for (let x = 0; x < width; x++) { pushPixel(x, 0); pushPixel(x, height - 1) }
SeedRows(f, x) ==
    IF x < f.width
    THEN SeedRows(pushPixel(pushPixel(f, x, 0), x, f.height - 1), x + 1)
    ELSE f

\* for (let y = 1; y < height - 1; y++) { pushPixel(0, y); pushPixel(width - 1, y) }
SeedColumns(f, y) ==
    IF y < f.height - 1
    THEN SeedColumns(pushPixel(pushPixel(f, 0, y), f.width - 1, y), y + 1)
    ELSE f

\* for (const [dx, dy] of neighborOffsets) pushPixel(x + dx, y + dy)
PushNeighbors(f, x, y, offsets, i) ==
    IF i <= Len(offsets)
    THEN PushNeighbors(pushPixel(f, x + offsets[i][1], y + offsets[i][2]),
                       x, y, offsets, i + 1)
    ELSE f

\* A worklist loop written with `if` instead of `while`: one pop.
Drain_Once(f) ==
    IF f.queue = <<>>
    THEN f
    ELSE LET current == f.queue[Len(f.queue)]
             x == current % f.width
             y == current \div f.width
             popped == [f EXCEPT !.queue = SubSeq(@, 1, Len(@) - 1),
                                 !.data[current][4] = 0,
                                 !.pops = @ + 1]
         IN PushNeighbors(popped, x, y, neighborOffsets, 1)

\* A worklist loop in which a pixel counts as visited only once it has been
\* popped: the marks its pushes made are taken back.
Drain_MarksAtPop(f) ==
    IF f.queue = <<>>
    THEN f
    ELSE LET current == f.queue[Len(f.queue)]
             x == current % f.width
             y == current \div f.width
             popped == [f EXCEPT !.queue = SubSeq(@, 1, Len(@) - 1),
                                 !.data[current][4] = 0,
                                 !.pops = @ + 1]
             pushed == PushNeighbors(popped, x, y, neighborOffsets, 1)
         IN Drain_MarksAtPop(
                [pushed EXCEPT !.visited = f.visited \cup {current}])

\* while (queue.length) { pop the last entry, clear its alpha, push its
\* neighbours }
Drain(f) ==
    IF f.queue = <<>>
    THEN f
    ELSE LET current == f.queue[Len(f.queue)]
             x == current % f.width
             y == current \div f.width
             popped == [f EXCEPT !.queue = SubSeq(@, 1, Len(@) - 1),
                                 !.data[current][4] = 0,
                                 !.pops = @ + 1]
         IN Drain(PushNeighbors(popped, x, y, neighborOffsets, 1))

\* The same loop over a worklist used as a queue: queue.shift() in the place
\* of queue.pop().
DrainFifo(f) ==
    IF f.queue = <<>>
    THEN f
    ELSE LET current == Head(f.queue)
             x == current % f.width
             y == current \div f.width
             popped == [f EXCEPT !.queue = Tail(@),
                                 !.data[current][4] = 0,
                                 !.pops = @ + 1]
         IN DrainFifo(PushNeighbors(popped, x, y, neighborOffsets, 1))

\* The fill before its first push.
NewFill(imageData, tolerancePercent, backgroundColor) ==
    [data |-> imageData.data,
     width |-> imageData.width,
     height |-> imageData.height,
     background |-> sampleBackgroundColor(imageData, backgroundColor),
     t |-> clamp(tolerancePercent, 0, 100),
     visited |-> {},
     queue |-> <<>>,
     pushed |-> <<>>,
     pops |-> 0]

\* removeBackgroud from getImageData to putImageData: the fill over the
\* pixel buffer of imageData.
FloodFill(imageData, tolerancePercent, backgroundColor) ==
    Drain(SeedColumns(SeedRows(
        NewFill(imageData, tolerancePercent, backgroundColor), 0), 1))

\* The fill with the worklist used as a queue.
FloodFillFifo(imageData, tolerancePercent, backgroundColor) ==
    DrainFifo(SeedColumns(SeedRows(
        NewFill(imageData, tolerancePercent, backgroundColor), 0), 1))

\* canvas.toDataURL("image/png") of the result, and what a later
\* loadImage / drawImage / getImageData of that payload reads back: opaque
\* pixels exactly; for a pixel with alpha 0 the colour channels either
\* survive or come back as 0, depending on whether the canvas of the host
\* stores premultiplied colours.
Reread(data, premultiplied) ==
    [p \in DOMAIN data |->
        IF data[p][4] = 0 /\ premultiplied THEN Blank ELSE data[p]]

removeBackgroud(imageData, tolerancePercent, backgroundColor) ==
    FloodFill(imageData, tolerancePercent, backgroundColor).data

\* The images that are matted: every size of up to MaxPixels pixels that is
\* square or one pixel wider than high, every pixel White or the colour of
\* the subject.
Subjects == {Black, Blank}
Sizes ==
    {wh \in (1..MaxPixels) \X (1..MaxPixels) :
        /\ wh[1] * wh[2] <= MaxPixels
        /\ wh[1] - wh[2] \in {0, 1}}
Tolerances == {0, 5, 60}
Backgrounds == {White, NearWhite}

\* The options of the caller: a wide tolerance against White, an exact match
\* and the default tolerance against NearWhite.
Options ==
    {o \in [tolerancePercent : Tolerances, backgroundColor : Backgrounds] :
        o.backgroundColor = White <=> o.tolerancePercent = 60}

NoData == <<>>

MatteAtRest ==
    matte = [imageData |-> ImageData(0, 0, NoData), tolerancePercent |-> 0,
             backgroundColor |-> White, passes |-> 0,
             first |-> NoData, pushed |-> <<>>, pops |-> 0,
             reread |-> NoData, second |-> NoData]

\* Images of the estimator: Dark and DarkNoise fall into one bucket, Grey
\* into another.
Dark == <<10, 10, 10, 255>>
DarkNoise == <<15, 15, 15, 255>>
Grey == <<200, 200, 200, 255>>
Palette == {Dark, DarkNoise, Grey}

\* The estimator has not been called.
EstimateAtRest ==
    estimate = [imageData |-> ImageData(0, 0, NoData), override |-> NoOverride,
                done |-> FALSE, result |-> White]

\* ------------------------------------------------------ TalkingAnimation
NoFrame == -1

\* animate(): the next frame is computed from the currentFrame of the render
\* whose effect defined the function; onFrameChange is the page's
\* setCurrentFrame; the timeout is armed again.
animate(t) ==
    LET nextFrame == (t.captured + 1) % t.length
    IN [t EXCEPT !.prev = t.report, !.report = nextFrame,
                 !.currentFrame = nextFrame, !.timer = TRUE,
                 !.firings = Min(@ + 1, MaxCount)]

\* The cleanup of the effect: the pending timeout is cleared.
cleanup(t) == [t EXCEPT !.timer = FALSE]

\* The effect body, run after a render in which a dependency (isPlaying,
\* animSpeed, frames.length, onFrameChange) differs from the render before.
effect(t) ==
    IF t.length > 0
    THEN animate([t EXCEPT !.captured = t.currentFrame, !.prev = NoFrame,
                           !.report = NoFrame, !.firings = 0])
    ELSE cleanup(t)

\* The page before any talking frames exist: no TalkingAnimation rendered.
TalkAtRest ==
    talk = [mounted |-> FALSE, length |-> 0, animSpeed |-> 500,
            currentFrame |-> 0, captured |-> NoFrame, prev |-> NoFrame,
            report |-> NoFrame, timer |-> FALSE, firings |-> 0]

\* ------------------------------------------------------------------ Init
\* One manager right after `new CharacterManager(DirectAnimations)`, held
\* by the caller that constructed it.
Init ==
    /\ managers = [m \in ManagerIds |->
                     IF m = 1 THEN NewCharacterManager(DirectAnimations)
                     ELSE Unallocated]
    /\ numManagers = 1
    /\ direct = {1}
    /\ managerRef = NoManager
    /\ mounted = FALSE
    /\ timers = {}
    /\ timerOwner = [t \in TimerIds |-> NoManager]
    /\ nextTimer = 1
    /\ last = [op |-> "new", manager |-> 1, arg |-> NoAnim, listener |-> FALSE,
               before |-> Unallocated, liveBefore |-> {}, resumedAt |-> -1]
    /\ calls = <<>>
    /\ threw = FALSE
    /\ run = [m \in ManagerIds |-> NoRun]
    /\ disposed = {}
    /\ ExtractorAtRest
    /\ EstimateAtRest
    /\ TalkAtRest
    /\ CutAtRest
    /\ MatteAtRest

\* No manager yet: the component that will own one has not been rendered.
InitComponent ==
    /\ managers = [m \in ManagerIds |-> Unallocated]
    /\ numManagers = 0
    /\ direct = {}
    /\ managerRef = NoManager
    /\ mounted = FALSE
    /\ timers = {}
    /\ timerOwner = [t \in TimerIds |-> NoManager]
    /\ nextTimer = 1
    /\ last = [op |-> "init", manager |-> NoManager, arg |-> NoAnim,
               listener |-> FALSE, before |-> Unallocated, liveBefore |-> {},
               resumedAt |-> -1]
    /\ calls = <<>>
    /\ threw = FALSE
    /\ run = [m \in ManagerIds |-> NoRun]
    /\ disposed = {}
    /\ ExtractorAtRest
    /\ EstimateAtRest
    /\ TalkAtRest
    /\ CutAtRest
    /\ MatteAtRest

\* --------------------------------------------------------------- actions
\* The managers a caller can reach: the ones it constructed itself and,
\* through the callbacks of the mounted component, managerRef.current.
Callable(m) ==
    \/ m \in direct
    \/ mounted /\ managerRef = m

\* The callbacks of Character / useCharacter always pass a listener.
Play(m, type, listener) ==
    /\ Callable(m)
    /\ m \notin direct => listener
    /\ LET w == playAnimation(World, m, type, listener)
       IN /\ Commit(w, <<>>, FALSE)
          /\ run' = [run EXCEPT ![m] =
                       IF w.managers[m].currentAnimation = NoAnim
                       THEN NoRun
                       ELSE [NoRun EXCEPT
                               !.type = type,
                               !.pure = (managers[m].state = "stopped" /\ listener)]]
    /\ last' = Record("play", m, type, listener)
    /\ UNCHANGED <<numManagers, direct, managerRef, mounted, disposed>>

Pause(m) ==
    /\ Callable(m)
    /\ Commit(pauseAnimation(World, m), <<>>, FALSE)
    /\ run' = [run EXCEPT ![m].pure = FALSE]
    /\ last' = Record("pause", m, NoAnim, FALSE)
    /\ UNCHANGED <<numManagers, direct, managerRef, mounted, disposed>>

Resume(m) ==
    /\ Callable(m)
    /\ Commit(resumeAnimation(World, m), <<>>, FALSE)
    /\ run' = [run EXCEPT ![m].pure = FALSE]
    /\ last' = Record("resume", m, NoAnim, FALSE)
    /\ UNCHANGED <<numManagers, direct, managerRef, mounted, disposed>>

Stop(m) ==
    /\ Callable(m)
    /\ Commit(stopAnimation(World, m), <<>>, FALSE)
    /\ run' = [run EXCEPT ![m].pure = FALSE]
    /\ last' = Record("stop", m, NoAnim, FALSE)
    /\ UNCHANGED <<numManagers, direct, managerRef, mounted, disposed>>

\* The host fires the live interval t: one run of its callback.
Tick(t) ==
    /\ t \in timers
    /\ LET m == timerOwner[t]
           o == IntervalCallback(World, m)
       IN /\ Commit(o.world, o.calls, o.threw)
          /\ run' = [run EXCEPT
                       ![m].changes = Bump(@, CountOf(o.calls, "onFrameChange")),
                       ![m].completes = Bump(@, CountOf(o.calls, "onComplete")),
                       ![m].ended = (@ \/ (managers[m].currentAnimation # NoAnim
                                      /\ o.world.managers[m].currentAnimation = NoAnim))]
          /\ last' = Record("tick", m, NoAnim, FALSE)
    /\ UNCHANGED <<numManagers, direct, managerRef, mounted, disposed>>

\* ----------------------------------------- Character / useCharacter
\* The frame props a render can carry: an empty array or a non-empty one.
BaseLens == {0, BaseLen}
TalkLens == {0, TalkLen}
InitialAnimations == {"idle", "talking"}

\* The body of the effect: build the animations record, construct the
\* manager m, store it in managerRef.current (done by the action) and
\* start the initial animation when there are base frames.
Effect(w, m, base, talking, initial) ==
    LET w1 == [w EXCEPT !.managers[m] =
                 NewCharacterManager(EffectAnimations(base, talking, 0, 0))]
    IN IF base > 0 THEN playAnimation(w1, m, initial, TRUE) ELSE w1

\* Variant: the effect returns no cleanup.
EffectCleanup_Missing(w, ref) == w

\* The function the effect returns: managerRef.current?.stopAnimation()
EffectCleanup(w, ref) ==
    IF ref # NoManager THEN stopAnimation(w, ref) ELSE w

RunOfEffect(w, m, initial) ==
    IF w.managers[m].currentAnimation = NoAnim
    THEN NoRun
    ELSE [NoRun EXCEPT !.type = initial, !.pure = TRUE]

\* After its cleanup nothing refers to the manager of the previous run of
\* the effect except the callbacks of its live timers.  With no live timer
\* left the object is garbage and its slot holds no state any more.
Collect(w, m) ==
    IF m # NoManager /\ LiveTimersIn(w, m) = {}
    THEN [w EXCEPT !.managers[m] = Unallocated]
    ELSE w

RunAfterCollect(w, r, m) ==
    IF m # NoManager /\ LiveTimersIn(w, m) = {}
    THEN [r EXCEPT ![m] = NoRun]
    ELSE r

\* First render of a new component instance: its ref starts at null and
\* the effect runs.
Mount(base, talking, initial) ==
    /\ ~mounted
    /\ numManagers < MaxManagers
    /\ LET m == numManagers + 1
           w == Effect(World, m, base, talking, initial)
       IN /\ Commit(w, <<>>, FALSE)
          /\ numManagers' = m
          /\ managerRef' = m
          /\ run' = [run EXCEPT ![m] = RunOfEffect(w, m, initial)]
          /\ last' = Record("mount", m, initial, TRUE)
    /\ mounted' = TRUE
    /\ UNCHANGED <<direct, disposed>>

\* A render with new frame inputs: the cleanup of the previous run of the
\* effect, then the effect again.
Rerender(base, talking, initial) ==
    /\ mounted
    /\ numManagers < MaxManagers
    /\ LET m == numManagers + 1
           w0 == EffectCleanup(World, managerRef)
           w == Effect(Collect(w0, managerRef), m, base, talking, initial)
       IN /\ Commit(w, <<>>, FALSE)
          /\ numManagers' = m
          /\ managerRef' = m
          /\ run' = [RunAfterCollect(w0, run, managerRef)
                        EXCEPT ![m] = RunOfEffect(w, m, initial)]
          /\ last' = Record("rerender", managerRef, initial, TRUE)
    /\ disposed' = disposed \cup {managerRef}
    /\ UNCHANGED <<direct, mounted>>

\* The component is removed: the cleanup of the last run of the effect.
Unmount ==
    /\ mounted
    /\ LET w0 == EffectCleanup(World, managerRef)
       IN /\ Commit(Collect(w0, managerRef), <<>>, FALSE)
          /\ run' = RunAfterCollect(w0, run, managerRef)
    /\ mounted' = FALSE
    /\ managerRef' = NoManager
    /\ last' = Record("unmount", managerRef, NoAnim, FALSE)
    /\ disposed' = disposed \cup {managerRef}
    /\ UNCHANGED <<numManagers, direct>>

\* ------------------------------------------------------------------ Next
\* The methods of a manager and the firing of its timer.
ManagerStep ==
    \/ \E m \in ManagerIds, type \in AnimationType, listener \in BOOLEAN :
           Play(m, type, listener)
    \/ \E m \in ManagerIds : Pause(m)
    \/ \E m \in ManagerIds : Resume(m)
    \/ \E m \in ManagerIds : Stop(m)
    \/ \E t \in TimerIds : Tick(t)

\* CharacterManager used directly, with clips of every kind.
Next == ManagerStep

Spec == Init /\ [][Next]_vars

\* CharacterManager as owned by the effect of Character / useCharacter.
NextComponent ==
    \/ \E base \in BaseLens, talking \in TalkLens, initial \in InitialAnimations :
           Mount(base, talking, initial)
    \/ \E base \in BaseLens, talking \in TalkLens, initial \in InitialAnimations :
           Rerender(base, talking, initial)
    \/ Unmount
    \/ ManagerStep

SpecComponent == InitComponent /\ [][NextComponent]_vars

\* ------------------------------------------------ FrameExtractor steps
AnimationAtRest ==
    /\ managers = [m \in ManagerIds |-> Unallocated]
    /\ numManagers = 0
    /\ direct = {}
    /\ managerRef = NoManager
    /\ mounted = FALSE
    /\ timers = {}
    /\ timerOwner = [t \in TimerIds |-> NoManager]
    /\ nextTimer = 1
    /\ last = [op |-> "init", manager |-> NoManager, arg |-> NoAnim,
               listener |-> FALSE, before |-> Unallocated, liveBefore |-> {},
               resumedAt |-> -1]
    /\ calls = <<>>
    /\ threw = FALSE
    /\ run = [m \in ManagerIds |-> NoRun]
    /\ disposed = {}

\* One new FrameExtractor(): both maps empty.
InitExtractor ==
    /\ AnimationAtRest
    /\ ExtractorAtRest
    /\ EstimateAtRest
    /\ TalkAtRest
    /\ CutAtRest
    /\ MatteAtRest

\* getFrame and getAllFrames read the cache and change nothing: what they
\* return in a state is given by the operators of the same name, and the
\* claims about reads quantify over every key and index in every state.
\* A method or continuation ends with the extractor in state x.  A key
\* stops counting as cleared when an array is stored under it.
ExtractorCommit(x, evicted) ==
    /\ cache' = x.cache
    /\ imageCache' = x.imageCache
    /\ arrays' = x.arrays
    /\ xcalls' = x.calls
    /\ cleared' = (cleared \cup evicted)
                    \ {k \in Keys : x.cache[k] # NoRef /\ x.cache[k] # cache[k]}
    /\ UNCHANGED <<animVars, cut, matte, estimate, talk>>

ExtractFrames(spritesheet, cols, rows, cacheKey) ==
    /\ Len(xcalls) < MaxCalls
    /\ ExtractorCommit(StartExtract(Extractor, spritesheet, cols, rows, cacheKey), {})

\* The host finishes loading the image a suspended call waits for.
ImageLoaded(c) ==
    /\ c \in DOMAIN xcalls
    /\ xcalls[c].status = "awaiting"
    /\ ExtractorCommit(ResolveLoad(Extractor, c), {})

\* The host fails to load it; an element found in imageCache cannot fail.
ImageError(c) ==
    /\ c \in DOMAIN xcalls
    /\ xcalls[c].status = "awaiting"
    /\ ~xcalls[c].imageCached
    /\ ExtractorCommit(RejectLoad(Extractor, c), {})

ClearCache(key) ==
    ExtractorCommit(clearCache(Extractor, key),
                    {k \in Keys : cache[k] # NoRef /\ (key = NoKey \/ key = k)})

NextExtractor ==
    \/ \E spritesheet \in Spritesheets, grid \in Grids, cacheKey \in CacheKeys :
           ExtractFrames(spritesheet, grid[1], grid[2], cacheKey)
    \/ \E c \in CallIds : ImageLoaded(c)
    \/ \E c \in CallIds : ImageError(c)
    \/ \E key \in Keys \cup {NoKey} : ClearCache(key)

SpecExtractor == InitExtractor /\ [][NextExtractor]_vars

\* ------------------------------------------------- cutting one sheet alone
\* The loops of extractFrames as a function of the decoded image and the
\* grid: every sheet of up to MaxSide by MaxSide pixels, every grid.
Sheets == {Image("S", w, h) : w \in 1..MaxSide, h \in 1..MaxSide}

InitCut ==
    /\ AnimationAtRest
    /\ ExtractorAtRest
    /\ EstimateAtRest
    /\ TalkAtRest
    /\ MatteAtRest
    /\ \E image \in Sheets, cols \in 0..MaxGrid, rows \in 0..MaxGrid :
           cut = [image |-> image, cols |-> cols, rows |-> rows,
                  done |-> FALSE, frames |-> <<>>]

Cut ==
    /\ ~cut.done
    /\ cut' = [cut EXCEPT !.done = TRUE,
                          !.frames = CutFrames(cut.image, cut.cols, cut.rows)]
    /\ UNCHANGED <<animVars, extractorVars, matte, estimate, talk>>

NextCut == Cut

SpecCut == InitCut /\ [][NextCut]_vars

\* -------------------------------------------------- removeBackgroud steps
\* One decoded image, the options of the caller, nothing matted yet.
InitMatte ==
    /\ AnimationAtRest
    /\ ExtractorAtRest
    /\ EstimateAtRest
    /\ TalkAtRest
    /\ CutAtRest
    /\ \E wh \in Sizes, subject \in Subjects, options \in Options :
        \E data \in [0..(wh[1] * wh[2] - 1) -> {White, subject}] :
           matte = [imageData |-> ImageData(wh[1], wh[2], data),
                    tolerancePercent |-> options.tolerancePercent,
                    backgroundColor |-> options.backgroundColor,
                    passes |-> 0,
                    first |-> NoData, pushed |-> <<>>, pops |-> 0,
                    reread |-> NoData, second |-> NoData]

\* removeBackgroud(image, options).
Matte ==
    /\ matte.passes = 0
    /\ LET f == FloodFill(matte.imageData, matte.tolerancePercent,
                          matte.backgroundColor)
       IN matte' = [matte EXCEPT !.passes = 1,
                                 !.first = f.data,
                                 !.pushed = f.pushed,
                                 !.pops = f.pops]
    /\ UNCHANGED <<animVars, extractorVars, cut, estimate, talk>>

\* removeBackgroud(output of the first call, same options).
Rematte(premultiplied) ==
    /\ matte.passes = 1
    /\ LET reread == Reread(matte.first, premultiplied)
       IN matte' = [matte EXCEPT
                      !.passes = 2,
                      !.reread = reread,
                      !.second = removeBackgroud(
                                     [matte.imageData EXCEPT !.data = reread],
                                     matte.tolerancePercent,
                                     matte.backgroundColor)]
    /\ UNCHANGED <<animVars, extractorVars, cut, estimate, talk>>

NextMatte ==
    \/ Matte
    \/ \E premultiplied \in BOOLEAN : Rematte(premultiplied)

SpecMatte == InitMatte /\ [][NextMatte]_vars

\* ------------------------------------------- sampleBackgroundColor steps
\* The pixel indices of the outermost ring of a width by height image.
Ring(width, height) ==
    {i \in 0..(width * height - 1) :
        \/ i % width = 0
        \/ i % width = width - 1
        \/ i \div width = 0
        \/ i \div width = height - 1}

\* A square image whose outermost ring is Dark; the other pixels are given.
Framed(side, inner) ==
    ImageData(side, side,
              [i \in 0..(side * side - 1) |->
                  IF i \in Ring(side, side) THEN Dark ELSE inner[i]])

\* One decoded image: any image up to EstSide by EstSide (empty ones
\* included), a framed image with an interior of noise, or the framed image
\* of 10 by 10 pixels with an interior of one colour.
InitEstimator ==
    /\ AnimationAtRest
    /\ ExtractorAtRest
    /\ TalkAtRest
    /\ CutAtRest
    /\ MatteAtRest
    /\ \E imageData \in
            UNION {[0..(w * h - 1) -> Palette] \X {<<w, h>>} :
                       w \in 0..EstSide, h \in 0..EstSide}
            \cup UNION {[(0..(n * n - 1)) \ Ring(n, n) -> {DarkNoise, Grey}]
                            \X {<<n>>} : n \in 3..FrameSide}
            \cup UNION {{[i \in 0..(n * n - 1) |-> c] : c \in Palette}
                            \X {<<n>>} : n \in {10}} :
          estimate =
            [imageData |->
                IF Len(imageData[2]) = 2
                THEN ImageData(imageData[2][1], imageData[2][2], imageData[1])
                ELSE Framed(imageData[2][1], imageData[1]),
             override |-> NoOverride, done |-> FALSE, result |-> White]

\* sampleBackgroundColor(imageData, override), or sampleBackgroundColor(
\* imageData) when the override is NoOverride.
Estimate(override) ==
    /\ ~estimate.done
    /\ estimate' = [estimate EXCEPT
                       !.done = TRUE,
                       !.override = override,
                       !.result = sampleBackgroundColor(estimate.imageData,
                                                        override)]
    /\ UNCHANGED <<animVars, extractorVars, cut, matte, talk>>

NextEstimator == \E override \in {NoOverride, White, Grey} : Estimate(override)

SpecEstimator == InitEstimator /\ [][NextEstimator]_vars

\* ------------------------------------------------ TalkingAnimation steps
InitTalking ==
    /\ AnimationAtRest
    /\ ExtractorAtRest
    /\ EstimateAtRest
    /\ TalkAtRest
    /\ CutAtRest
    /\ MatteAtRest

\* handleGenerate's setTalkingFrames(frames) and setCurrentFrame(0), n the
\* number of frames: the component is rendered with both; its effect runs
\* when it is mounted by this render or frames.length differs.
TalkGenerate(n) ==
    LET rendered == [talk EXCEPT !.mounted = TRUE, !.length = n,
                                 !.currentFrame = 0]
    IN /\ talk' = IF ~talk.mounted THEN effect(rendered)
                  ELSE IF talk.length # n THEN effect(cleanup(rendered))
                  ELSE rendered
       /\ UNCHANGED <<animVars, extractorVars, cut, matte, estimate>>

\* The parent renders the component with another animSpeed.
TalkSpeed(animSpeed) ==
    /\ talk.mounted
    /\ animSpeed # talk.animSpeed
    /\ talk' = effect(cleanup([talk EXCEPT !.animSpeed = animSpeed]))
    /\ UNCHANGED <<animVars, extractorVars, cut, matte, estimate>>

\* The pending timeout fires: animate runs again.
TalkTimer ==
    /\ talk.mounted
    /\ talk.timer
    /\ talk' = animate(talk)
    /\ UNCHANGED <<animVars, extractorVars, cut, matte, estimate>>

\* handleFileChange: setTalkingFrames([]) and setCurrentFrame(0) unmount
\* the component; the cleanup of its effect runs.
TalkFileChange ==
    /\ talk.mounted
    /\ talk' = [cleanup(talk) EXCEPT !.mounted = FALSE, !.length = 0,
                                     !.currentFrame = 0, !.captured = NoFrame,
                                     !.prev = NoFrame, !.report = NoFrame,
                                     !.firings = 0]
    /\ UNCHANGED <<animVars, extractorVars, cut, matte, estimate>>

NextTalking ==
    \/ \E n \in 1..TalkLen : TalkGenerate(n)
    \/ \E animSpeed \in {250, 500, 1000} : TalkSpeed(animSpeed)
    \/ TalkTimer
    \/ TalkFileChange

SpecTalking == InitTalking /\ [][NextTalking]_vars

\* ---------------------------------------------------------------- claims
Allocated == 1..numManagers

\* The AnimationConfig that was active before the last operation.
ConfigBefore == last.before.animations[last.before.currentAnimation]

\* The last step was a tick that moved a non-looping clip to its end.
FinalTick ==
    /\ last.op = "tick"
    /\ last.before.currentAnimation # NoAnim
    /\ ~ConfigBefore.loop
    /\ last.before.currentFrameIndex + 1 >= ConfigBefore.frames

\* C1: whatever sequence of playAnimation (any clip, also the same one
\* again), pauseAnimation, resumeAnimation, stopAnimation and timer ticks
\* has happened, a manager owns at most one live interval timer.
C1_AtMostOneLiveTimer ==
    \A m \in ManagerIds : Cardinality(LiveTimers(m)) <= 1

\* A clip was switched while another one was playing after a resume: the
\* old timer is gone and exactly one new one is live.
C1_Witness ==
    /\ last.op = "play"
    /\ last.before.state = "playing"
    /\ last.arg # last.before.currentAnimation
    /\ last.liveBefore # {}
    /\ Cardinality(LiveTimers(last.manager)) = 1
    /\ LiveTimers(last.manager) \cap last.liveBefore = {}
    /\ nextTimer > 3

\* C2: the tick that moves a non-looping clip to its frame count leaves the
\* engine stopped (no timer, no active clip, index 0) and then calls the
\* clip's onComplete exactly once when the clip has one, and returns
\* normally.
C2_StopThenOnComplete ==
    FinalTick =>
        /\ managers[last.manager].state = "stopped"
        /\ LiveTimers(last.manager) = {}
        /\ managers[last.manager].currentAnimation = NoAnim
        /\ managers[last.manager].currentFrameIndex = 0
        /\ ~threw
        /\ CountOf(calls, "onComplete") = IF ConfigBefore.onComplete THEN 1 ELSE 0

\* C3: an N-frame non-looping clip played from Stopped, followed by timer
\* ticks only, has delivered exactly N onFrameChange notifications and one
\* onComplete call when it has run to its end, and the engine is Stopped.
C3_OneShotRun ==
    \A m \in Allocated :
        (run[m].pure /\ run[m].ended /\ managers[m].animations[run[m].type].onComplete)
        => /\ run[m].changes = managers[m].animations[run[m].type].frames
           /\ run[m].completes = 1
           /\ managers[m].state = "stopped"

\* C4: Stopped exactly when there is no active clip; Stopped has frame
\* index 0 and no live timer; Playing has an active clip and a live timer;
\* Paused has an active clip and no live timer.
C4_StateInvariant ==
    \A m \in Allocated :
        /\ (managers[m].state = "stopped") <=> (managers[m].currentAnimation = NoAnim)
        /\ managers[m].state = "stopped" =>
              /\ managers[m].currentFrameIndex = 0
              /\ LiveTimers(m) = {}
        /\ managers[m].state = "playing" =>
              /\ managers[m].currentAnimation \in AnimationType
              /\ managers[m].animations[managers[m].currentAnimation].present
              /\ LiveTimers(m) # {}
        /\ managers[m].state = "paused" =>
              /\ managers[m].currentAnimation \in AnimationType
              /\ managers[m].animations[managers[m].currentAnimation].present
              /\ LiveTimers(m) = {}

\* A clip paused in the middle after at least two timers were started.
C4_Witness ==
    /\ managers[1].state = "paused"
    /\ managers[1].currentFrameIndex > 0
    /\ nextTimer > 2

\* C5: pauseAnimation while Playing cancels the timer, makes the state
\* Paused and keeps frame index and active clip; while Stopped or Paused it
\* changes nothing at all.
C5_Pause ==
    last.op = "pause" =>
        IF last.before.state = "playing"
        THEN /\ LiveTimers(last.manager) = {}
             /\ last.liveBefore \cap timers = {}
             /\ managers[last.manager].state = "paused"
             /\ managers[last.manager].currentFrameIndex = last.before.currentFrameIndex
             /\ managers[last.manager].currentAnimation = last.before.currentAnimation
        ELSE /\ managers[last.manager] = last.before
             /\ LiveTimers(last.manager) = last.liveBefore

C5_Witness ==
    /\ last.op = "pause"
    /\ last.before.state = "playing"
    /\ last.before.currentFrameIndex > 0
    /\ last.liveBefore # {}

\* C6: resumeAnimation while Paused makes the state Playing and starts a
\* timer without touching the frame index, so that the first tick after it
\* moves to the paused index + 1 (or wraps or completes from there); while
\* Stopped or Playing it changes nothing and starts no timer.
C6_Resume ==
    /\ last.op = "resume" =>
          IF last.before.state = "paused"
          THEN /\ managers[last.manager].state = "playing"
               /\ managers[last.manager].currentFrameIndex = last.before.currentFrameIndex
               /\ managers[last.manager].currentAnimation = last.before.currentAnimation
               /\ Cardinality(LiveTimers(last.manager)) = 1
               /\ LiveTimers(last.manager) = {managers[last.manager].animationTimer}
               /\ managers[last.manager].animationTimer # last.before.animationTimer
          ELSE /\ managers[last.manager] = last.before
               /\ LiveTimers(last.manager) = last.liveBefore
    /\ (last.op = "tick" /\ last.resumedAt >= 0) =>
          managers[last.manager].currentFrameIndex =
              IF last.resumedAt + 1 >= ConfigBefore.frames
              THEN 0 ELSE last.resumedAt + 1

\* The first tick after resuming a clip that was paused past frame 0.
C6_Witness ==
    /\ last.op = "tick"
    /\ last.resumedAt > 0
    /\ managers[last.manager].currentFrameIndex = last.resumedAt + 1

\* C7: stopAnimation in any state leaves Stopped, no active clip, frame
\* index 0 and no live timer; from then on no tick fires (ticks only ever
\* run on a Playing manager) and no callback is delivered until the next
\* playAnimation.
C7_Stop ==
    /\ last.op = "stop" =>
          /\ managers[last.manager].state = "stopped"
          /\ managers[last.manager].currentAnimation = NoAnim
          /\ managers[last.manager].currentFrameIndex = 0
          /\ managers[last.manager].animationTimer = NoTimer
          /\ LiveTimers(last.manager) = {}
          /\ last.liveBefore \cap timers = {}
    /\ last.op = "tick" => last.before.state = "playing"
    /\ calls # <<>> => (last.op = "tick" /\ last.before.state = "playing")

\* stopAnimation on a clip paused past frame 0.
C7_Witness ==
    /\ last.op = "stop"
    /\ last.before.state = "paused"
    /\ last.before.currentFrameIndex > 0
    /\ last.before.animationTimer # NoTimer

\* C8: playAnimation from Stopped with a name that is not in the clip
\* mapping does not throw, starts no timer and leaves Stopped, no active
\* clip, frame index 0.
C8_PlayMissingFromStopped ==
    (/\ last.op = "play"
     /\ last.before.state = "stopped"
     /\ ~last.before.animations[last.arg].present)
    => /\ ~threw
       /\ LiveTimers(last.manager) = {}
       /\ managers[last.manager] = last.before
       /\ managers[last.manager].state = "stopped"
       /\ managers[last.manager].currentAnimation = NoAnim
       /\ managers[last.manager].currentFrameIndex = 0

C8_Witness ==
    /\ last.op = "play"
    /\ last.before.state = "stopped"
    /\ ~last.before.animations[last.arg].present
    /\ nextTimer > 1

\* C9: playAnimation of the clip that is already Playing restarts it: the
\* old timer is cancelled, the frame index is 0 and the state is Playing
\* with exactly one, new, timer.
C9_ReplayRestarts ==
    (/\ last.op = "play"
     /\ last.before.state = "playing"
     /\ last.arg = last.before.currentAnimation)
    => /\ last.liveBefore \cap timers = {}
       /\ managers[last.manager].currentFrameIndex = 0
       /\ managers[last.manager].state = "playing"
       /\ managers[last.manager].currentAnimation = last.arg
       /\ Cardinality(LiveTimers(last.manager)) = 1
       /\ LiveTimers(last.manager) = {managers[last.manager].animationTimer}
       /\ managers[last.manager].animationTimer # last.before.animationTimer

C9_Witness ==
    /\ last.op = "play"
    /\ last.before.state = "playing"
    /\ last.arg = last.before.currentAnimation
    /\ last.before.currentFrameIndex > 0

\* C10: once the cleanup of an effect has run (unmount, or a re-run of the
\* effect with new frame inputs), the manager that effect created has no
\* live timer: none of its ticks fires and none of its listeners is called.
C10_TeardownCancels ==
    /\ \A t \in timers : timerOwner[t] \notin disposed
    /\ last.op = "tick" => last.manager \notin disposed
    /\ \A i \in DOMAIN calls : calls[i].manager \notin disposed

\* The cleanup ran on a manager whose timer was live, past frame 0.
C10_Witness ==
    /\ last.op \in {"rerender", "unmount"}
    /\ last.liveBefore # {}
    /\ last.before.currentFrameIndex > 0
    /\ last.manager \in disposed

\* ----------------------------------------------- claims on FrameExtractor
Calls == DOMAIN xcalls

\* extractFrames call c has resolved with a frames array.
Done(c) == xcalls[c].status = "done"

\* The frames array call c resolved with.
Returned(c) == arrays[xcalls[c].result]

\* What the loops cut from the image and the grid passed to call c.
OwnFrames(c) ==
    CutFrames(xcalls[c].spritesheet.image, xcalls[c].cols, xcalls[c].rows)

ValidGrid(c) == xcalls[c].cols >= 1 /\ xcalls[c].rows >= 1

\* C11: for cols, rows >= 1, after any earlier extractFrames / clearCache
\* calls on the extractor, the sequence a call returns has length cols*rows
\* for the cols and rows of that call.
C11_LengthIsColsTimesRows ==
    \A c \in Calls :
        Done(c) /\ ValidGrid(c) =>
            Len(Returned(c)) = xcalls[c].cols * xcalls[c].rows

\* C12: on a miss with cols, rows >= 1 the frame at index row*cols+col is the
\* crop of the rectangle (col*fw, row*fh, fw, fh), fw = floor(width/cols),
\* fh = floor(height/rows); the rectangles are pairwise disjoint, lie inside
\* the source, and the remainder pixels on the right and bottom edge are in
\* no frame.
C12_RowMajorCrops ==
    (cut.done /\ cut.cols >= 1 /\ cut.rows >= 1) =>
        LET id == cut.image.id
            fw == cut.image.width \div cut.cols
            fh == cut.image.height \div cut.rows
            SourcePixels == {<<id, x, y>> : x \in 0..(cut.image.width - 1),
                                           y \in 0..(cut.image.height - 1)}
            Shown(i) == {cut.frames[i].px[p] : p \in DOMAIN cut.frames[i].px}
        IN /\ Len(cut.frames) = cut.cols * cut.rows
           /\ \A row \in 0..(cut.rows - 1), col \in 0..(cut.cols - 1) :
                 LET f == cut.frames[row * cut.cols + col + 1]
                 IN /\ f.width = fw
                    /\ f.height = fh
                    /\ DOMAIN f.px = (0..(fw - 1)) \X (0..(fh - 1))
                    /\ \A p \in DOMAIN f.px :
                          f.px[p] = <<id, col * fw + p[1], row * fh + p[2]>>
           /\ \A i \in DOMAIN cut.frames : Shown(i) \subseteq SourcePixels
           /\ \A i, j \in DOMAIN cut.frames :
                 i # j => Shown(i) \cap Shown(j) = {}
           /\ \A s \in SourcePixels :
                 (s[2] >= cut.cols * fw \/ s[3] >= cut.rows * fh) =>
                     \A i \in DOMAIN cut.frames : s \notin Shown(i)

\* A 3 by 3 sheet cut 2 by 2: four one-pixel frames, a remainder column and
\* a remainder row.
C12_Witness ==
    /\ cut.done
    /\ cut.cols = 2 /\ cut.rows = 2
    /\ cut.image.width = 3 /\ cut.image.height = 3
    /\ Len(cut.frames) = 4
    /\ cut.frames[3].px[<<0, 0>>] = <<cut.image.id, 0, 1>>

\* C13: when a call finds an entry under its key (an earlier call completed
\* for the key and the entry was not cleared since), it returns that very
\* array, with the contents it was stored with, and does not call loadImage.
C13_HitReturnsStored ==
    \A c \in Calls :
        xcalls[c].found # NoRef =>
            /\ Done(c)
            /\ xcalls[c].result = xcalls[c].found
            /\ ~xcalls[c].loadCalled
            /\ xcalls[c].found \in 1..(c - 1)
            /\ Done(xcalls[c].found)
            /\ xcalls[xcalls[c].found].key = xcalls[c].key
            /\ Returned(c) = OwnFrames(xcalls[c].found)

\* A second call for a url under the key of a finished call.
C13_Witness ==
    \E c \in Calls :
        /\ xcalls[c].found # NoRef
        /\ xcalls[c].spritesheet.kind = "string"
        /\ Done(c)
        /\ xcalls[xcalls[c].found].spritesheet.kind = "string"

\* C14: calls that pass an HTMLImageElement and no cacheKey are never
\* answered from the cache: each returns the frames cut from its own image.
C14_AnonymousNeverHit ==
    \A c \in Calls :
        (xcalls[c].spritesheet.kind = "element" /\ xcalls[c].cacheKey = NoKey) =>
            /\ xcalls[c].found = NoRef
            /\ Done(c) => Returned(c) = OwnFrames(c)

\* C15: after clearCache(key) or clearCache() has evicted the entry of a key,
\* getAllFrames / getFrame do not find the key until an array is stored
\* under it again, and the next call resolving to the key is a miss that
\* cuts a new array from its own source.
C15_ClearThenRecompute ==
    /\ \A k \in cleared :
          /\ getAllFrames(Extractor, k) = NoRef
          /\ ~getFrame(Extractor, k, 0).found
    /\ \A c \in Calls :
          xcalls[c].afterClear =>
              /\ xcalls[c].found = NoRef
              /\ xcalls[c].spritesheet.kind = "string" => xcalls[c].loadCalled
              /\ Done(c) => (xcalls[c].result = c /\ Returned(c) = OwnFrames(c))

\* An entry was evicted and the next call for its key, with another source,
\* has produced frames that differ from the evicted ones.
C15_Witness ==
    \E c \in Calls :
        /\ c > 1
        /\ xcalls[c].afterClear
        /\ Done(c)
        /\ Done(1)
        /\ xcalls[1].key = xcalls[c].key
        /\ arrays[c] # arrays[1]
        /\ cache[xcalls[c].key] = c

\* C16: when loading the image fails the call rejects, no array is
\* returned, and the cache is exactly what it was before the failure: no
\* entry appears for the key.
C16_RejectLeavesCache ==
    [][\A c \in DOMAIN xcalls :
          (xcalls[c].status = "awaiting" /\ xcalls'[c].status = "rejected") =>
              /\ cache' = cache
              /\ arrays' = arrays
              /\ xcalls'[c].result = NoRef
              /\ \A k \in Keys : cache'[k] # c]_vars

\* A load has failed while the key holds the entry another call stored.
C16_Witness ==
    \E c \in Calls :
        /\ xcalls[c].status = "rejected"
        /\ xcalls[c].found = NoRef
        /\ cache[xcalls[c].key] # NoRef
        /\ arrays[c] = <<>>

\* C17: a call with cols <= 0 or rows <= 0 fails: it returns no frames
\* array and stores nothing under its key.
C17_InvalidGridFails ==
    \A c \in Calls :
        ~ValidGrid(c) =>
            /\ ~Done(c)
            /\ \A k \in Keys : cache[k] # c

\* C18: whatever calls are suspended at their image load, an array that
\* getAllFrames / getFrame can read under a key is the complete result of
\* one finished call.
C18_NoPartialEntry ==
    \A k \in Keys :
        LET r == getAllFrames(Extractor, k)
        IN r # NoRef =>
              /\ r \in Calls
              /\ Done(r)
              /\ xcalls[r].result = r
              /\ arrays[r] = OwnFrames(r)
              /\ \A i \in 0..MaxGrid :
                    LET got == getFrame(Extractor, k, i)
                    IN /\ got.found <=> i < Len(OwnFrames(r))
                       /\ got.found => got.frame = OwnFrames(r)[i + 1]

\* A later call has stored its frames under the key an earlier call, still
\* suspended at its image load, will store under as well.
C18_Witness ==
    \E c1, c2 \in Calls :
        /\ c1 < c2
        /\ xcalls[c1].status = "awaiting"
        /\ xcalls[c1].key = xcalls[c2].key
        /\ cache[xcalls[c2].key] = c2
        /\ getFrame(Extractor, xcalls[c2].key, 0).found

\* ---------------------------------------------- claims on removeBackgroud
Pixels == DOMAIN matte.imageData.data

Range(seq) == {seq[i] : i \in DOMAIN seq}

\* Pixel p of the image as decoded is within the tolerance of the background.
Matchable(p) ==
    withinTolerance(matte.imageData.data, p, matte.backgroundColor,
                    clamp(matte.tolerancePercent, 0, 100))

OnBorder(p) ==
    LET x == p % matte.imageData.width
        y == p \div matte.imageData.width
    IN \/ x = 0 \/ x = matte.imageData.width - 1
       \/ y = 0 \/ y = matte.imageData.height - 1

\* p and q are different pixels that touch along a side or at a corner.
Adjacent(p, q) ==
    LET w == matte.imageData.width
    IN /\ p # q
       /\ (p % w) - (q % w) \in {-1, 0, 1}
       /\ (p \div w) - (q \div w) \in {-1, 0, 1}

\* The pixels of M joined to the pixels of S by 8-connected paths inside M.
RECURSIVE Grow(_, _)
Grow(S, M) ==
    LET N == S \cup {q \in M : \E p \in S : Adjacent(p, q)}
    IN IF N = S THEN S ELSE Grow(N, M)

\* The matchable pixels joined to a matchable border pixel.
BorderRegion ==
    LET M == {p \in Pixels : Matchable(p)}
    IN Grow({p \in M : OnBorder(p)}, M)

\* C19: the fill sets the alpha of a pixel to 0 if and only if the pixel is
\* matchable and joined to a matchable border pixel by an 8-connected path
\* of matchable pixels; every other pixel, an enclosed background-coloured
\* patch included, is left exactly as it was.
C19_ErasedIffBorderConnected ==
    matte.passes >= 1 =>
        LET region == BorderRegion
        IN matte.first =
               [p \in Pixels |->
                   IF p \in region
                   THEN [matte.imageData.data[p] EXCEPT ![4] = 0]
                   ELSE matte.imageData.data[p]]

\* One pass over an image with an opaque matchable pixel that is enclosed
\* and kept, and an opaque pixel that was erased.
C19_Witness ==
    /\ matte.passes = 1
    /\ \E p \in Pixels \ BorderRegion :
          /\ Matchable(p)
          /\ ~OnBorder(p)
          /\ matte.first[p][4] = 255
    /\ \E q \in Pixels :
          /\ matte.imageData.data[q][4] = 255
          /\ matte.first[q][4] = 0

\* C20: the matte run on its own output, with the same background colour
\* and tolerance, erases no further pixel: the alpha channel after the
\* second pass is the alpha channel after the first.
C20_SecondPassErasesNothing ==
    matte.passes = 2 =>
        \A p \in Pixels : matte.second[p][4] = matte.first[p][4]

\* Two passes; the first erased an opaque pixel, whose colour did not
\* survive the re-read, and left an opaque matchable pixel for the second.
C20_Witness ==
    /\ matte.passes = 2
    /\ matte.reread # matte.first
    /\ \E q \in Pixels :
          /\ matte.imageData.data[q][4] = 255
          /\ matte.first[q][4] = 0
    /\ \E p \in Pixels :
          /\ Matchable(p)
          /\ matte.first[p][4] = 255
          /\ matte.second[p][4] = 255

\* ------------------------------------------ further claims on the manager
\* The clip of manager m is a looping clip with at least one frame.
LoopingClip(mgr) ==
    /\ mgr.currentAnimation # NoAnim
    /\ mgr.animations[mgr.currentAnimation].loop
    /\ mgr.animations[mgr.currentAnimation].frames >= 1

\* C23: a tick while Playing moves the frame index up by one and, on a
\* looping clip, back to 0 when it reaches the frame count; so on a looping
\* clip of N >= 1 frames the index seen between operations and every index
\* given to onFrameChange is in 0..N-1, and ticks leave the clip Playing
\* with its timer live.
C23_LoopingClipCycles ==
    /\ \A m \in Allocated :
          LoopingClip(managers[m]) =>
              managers[m].currentFrameIndex \in
                  0..(managers[m].animations[managers[m].currentAnimation].frames - 1)
    /\ (last.op = "tick" /\ last.before.state = "playing"
        /\ last.before.currentAnimation # NoAnim) =>
          LET m == last.manager
              i == last.before.currentFrameIndex
              N == ConfigBefore.frames
          IN /\ i + 1 < N => managers[m].currentFrameIndex = i + 1
             /\ LoopingClip(last.before) =>
                   /\ i + 1 >= N => managers[m].currentFrameIndex = 0
                   /\ managers[m].state = "playing"
                   /\ managers[m].currentAnimation = last.before.currentAnimation
                   /\ LiveTimers(m) = last.liveBefore
                   /\ Cardinality(LiveTimers(m)) = 1
                   /\ ~threw
                   /\ \A k \in DOMAIN calls :
                         /\ calls[k].cb = "onFrameChange"
                         /\ calls[k].arg \in 0..(N - 1)
                         /\ calls[k].arg = managers[m].currentFrameIndex
                   /\ Len(calls) = IF last.before.onFrameChange THEN 1 ELSE 0

\* A tick on the last frame of a looping clip with a listener: the index is
\* back at 0 and 0 was reported.
C23_Witness ==
    /\ last.op = "tick"
    /\ LoopingClip(last.before)
    /\ last.before.currentFrameIndex = ConfigBefore.frames - 1
    /\ managers[last.manager].currentFrameIndex = 0
    /\ calls = <<FrameChangeCall(last.manager, 0)>>
    /\ managers[last.manager].state = "playing"

\* C27: playAnimation with a name that is not in the animations record,
\* called while a clip is Playing or Paused, changes nothing: the clip, the
\* state, the frame index and the timer are as before the call.
C27_MissingNameIsNoOp ==
    (/\ last.op = "play"
     /\ ~last.before.animations[last.arg].present
     /\ last.before.state \in {"playing", "paused"}) =>
        /\ managers[last.manager] = last.before
        /\ LiveTimers(last.manager) = last.liveBefore

\* -------------------------------------- further claims on removeBackgroud

\* C21: for a fixed image and background, a pixel erased with tolerance t1
\* is erased with every tolerance t2 >= t1, so the number of erased pixels
\* does not go down as the tolerance goes up.
C21_MonotoneInTolerance ==
    matte.passes = 1 =>
        LET mine == Range(matte.pushed)
        IN \A t \in {-10, 5, 60, 150} :
              LET other == Range(FloodFill(matte.imageData, t,
                                            matte.backgroundColor).pushed)
              IN /\ t >= matte.tolerancePercent =>
                       (mine \subseteq other
                        /\ Cardinality(mine) <= Cardinality(other))
                 /\ t <= matte.tolerancePercent =>
                       (other \subseteq mine
                        /\ Cardinality(other) <= Cardinality(mine))

\* A pass that erased something, and a larger tolerance erases more.
C21_Witness ==
    /\ matte.passes = 1
    /\ matte.pops > 0
    /\ matte.tolerancePercent = 5
    /\ Range(FloodFill(matte.imageData, -10, matte.backgroundColor).pushed) = {}
    /\ Cardinality(Range(FloodFill(matte.imageData, 150, matte.backgroundColor).pushed))
           > matte.pops

\* C24: during one fill every pixel is pushed at most once, so the loop
\* makes at most width*height pops and ends with the worklist empty.
C24_PushedAtMostOnce ==
    matte.passes >= 1 =>
        /\ \A i, j \in DOMAIN matte.pushed :
              i # j => matte.pushed[i] # matte.pushed[j]
        /\ Range(matte.pushed) \subseteq Pixels
        /\ matte.pops = Len(matte.pushed)
        /\ matte.pops <= matte.imageData.width * matte.imageData.height

\* A fill of an image of at least 3 by 3 that erased every pixel: each has
\* several erased neighbours that looked at it.
C24_Witness ==
    /\ matte.passes = 1
    /\ matte.imageData.width >= 3
    /\ matte.imageData.height >= 3
    /\ matte.pops = matte.imageData.width * matte.imageData.height

\* C25: the alpha channel the fill leaves does not depend on the worklist
\* discipline: popping the newest entry (as the source does) and taking
\* the oldest erase the same pixels, although the matchability test reads
\* the buffer the alpha is written into.
C25_LifoEqualsFifo ==
    matte.passes = 1 =>
        LET fifo == FloodFillFifo(matte.imageData, matte.tolerancePercent,
                                  matte.backgroundColor)
        IN /\ fifo.data = matte.first
           /\ Range(fifo.pushed) = Range(matte.pushed)

\* A fill whose pixels are visited in different orders by the two
\* disciplines.
C25_Witness ==
    /\ matte.passes = 1
    /\ matte.pops >= 4
    /\ matte.pops < matte.imageData.width * matte.imageData.height
    /\ FloodFillFifo(matte.imageData, matte.tolerancePercent,
                     matte.backgroundColor).pushed # matte.pushed

\* The estimator ran without an override on an image with pixels.
Estimated ==
    /\ estimate.done
    /\ estimate.override = NoOverride
    /\ estimate.imageData.width > 0
    /\ estimate.imageData.height > 0

\* C22: whenever the outermost ring of the image is uniformly one colour,
\* the estimator without an override returns exactly that colour, whatever
\* the interior pixels are.
C22_UniformRingIsEstimate ==
    (/\ Estimated
     /\ \A i \in Ring(estimate.imageData.width, estimate.imageData.height) :
            estimate.imageData.data[i] = estimate.imageData.data[0])
        => estimate.result = estimate.imageData.data[0]

\* C29: while the component is mounted with at least two frames, a timer
\* firing reports the index after the one reported before it, modulo the
\* number of frames.
C29_ReportsAdvance ==
    (/\ talk.mounted
     /\ talk.length >= 2
     /\ talk.prev # NoFrame)
        => talk.report = (talk.prev + 1) % talk.length

\* The pixels the two loops of the estimator read, in order: four per
\* column, then four per row.
Samples ==
    LET width == estimate.imageData.width
        height == estimate.imageData.height
        At(x, y) == estimate.imageData.data[y * width + x]
    IN [k \in 1..(4 * width + 4 * height) |->
          IF k <= 4 * width
          THEN At((k - 1) \div 4,
                  CASE (k - 1) % 4 = 0 -> 0
                    [] (k - 1) % 4 = 1 -> Min(1, height - 1)
                    [] (k - 1) % 4 = 2 -> height - 1
                    [] OTHER -> Max(height - 2, 0))
          ELSE At(CASE (k - 1) % 4 = 0 -> 0
                    [] (k - 1) % 4 = 1 -> Min(1, width - 1)
                    [] (k - 1) % 4 = 2 -> width - 1
                    [] OTHER -> Max(width - 2, 0),
                  (k - 1 - 4 * width) \div 4)]

\* The samples that fall into the bucket of a key.
Hits(key) == {k \in DOMAIN Samples : BucketKey(Samples[k]) = key}

\* The keys with the highest number of samples.
Highest ==
    LET keys == {BucketKey(Samples[k]) : k \in DOMAIN Samples}
    IN {key \in keys :
          \A other \in keys : Cardinality(Hits(other)) <= Cardinality(Hits(key))}

\* Among the keys with the highest count, the one sampled first: the bucket
\* that was inserted into the map first.
FirstInserted ==
    CHOOSE key \in Highest :
        \E early \in Hits(key) :
            \A other \in Highest : \A k \in Hits(other) : early <= k

\* Among the keys with the highest count, the one whose last sample comes
\* first: the bucket that reached the highest count first during the scan.
FirstToReach ==
    CHOOSE key \in Highest :
        \A other \in Highest :
            \E late \in Hits(other) : \A k \in Hits(key) : k <= late

RECURSIVE ChannelSum(_, _)
ChannelSum(S, channel) ==
    IF S = {} THEN 0
    ELSE LET k == CHOOSE k \in S : TRUE
         IN Samples[k][channel] + ChannelSum(S \ {k}, channel)

\* The per-channel mean of the samples of a key, rounded to the nearest
\* integer (a half rounds up).
RoundedMean(key) ==
    LET hits == Hits(key)
        count == Cardinality(hits)
    IN [channel \in 1..4 |->
          LET sum == ChannelSum(hits, channel)
          IN CHOOSE v \in 0..255 :
                /\ 2 * count * v <= 2 * sum + count
                /\ 2 * count * (v + 1) > 2 * sum + count]

\* C26, as claimed: without an override the estimator returns the rounded
\* mean of the highest-count bucket, and of several buckets with the highest
\* count it takes the one that reached that count first during the scan.
C26_FirstToReachWins ==
    Estimated => estimate.result = RoundedMean(FirstToReach)

\* C26, amended: without an override the estimator returns the rounded mean
\* of the highest-count bucket, and of several buckets with the highest count
\* it takes the one that was inserted first, that is, sampled first.
C26_FirstInsertedWins ==
    Estimated => estimate.result = RoundedMean(FirstInserted)

\* Two buckets share the highest count, and the one inserted first reaches
\* that count last.
C26_Witness ==
    /\ Estimated
    /\ Cardinality(Highest) >= 2
    /\ FirstInserted # FirstToReach
    /\ estimate.result = RoundedMean(FirstInserted)
    /\ estimate.result # RoundedMean(FirstToReach)

\* C28: every extractFrames call that passes a cacheKey returns frames
\* whose pixels are pixels of the source image passed to that call, also
\* when the cacheKey was used before with another source.
C28_FramesFromOwnSource ==
    \A c \in Calls :
        (Done(c) /\ xcalls[c].cacheKey # NoKey) =>
            \A i \in DOMAIN Returned(c) :
                \A p \in DOMAIN Returned(c)[i].px :
                    Returned(c)[i].px[p][1] = xcalls[c].spritesheet.image.id

\* C30: a call that was suspended at its image load when clearCache evicted
\* the entry of its key does not store an entry under the key when it
\* resumes.
C30_InFlightDoesNotRestore ==
    [][\A c \in DOMAIN xcalls :
          (/\ xcalls[c].status = "awaiting"
           /\ ~xcalls[c].afterClear
           /\ xcalls[c].key \in cleared
           /\ xcalls'[c].status = "done") =>
              cache'[xcalls[c].key] # c]_vars

====
